---- MODULE Spec2Model ----
(***************************************************************************)
(* State-machine model of the portfolio site's interactive components:     *)
(*   - ProjectSection (the Swiper carousel of project cards),              *)
(*   - DockerDownloadPage (the mount-time file download page),             *)
(*   - HomeClient (sections rendered once in view) with GLBTestComponent   *)
(*     (the 3D viewer and its loading overlay).                            *)
(* Card and slide indexes are 0-based as in the TypeScript source; the     *)
(* projects array is a TLA+ sequence, so Project(i) reads projects[i + 1]. *)
(***************************************************************************)
EXTENDS Integers, Sequences, FiniteSets, TLC

VARIABLES
    projects,        \* the imported static projects array
    mounted,         \* ProjectSection is mounted
    expandedCards,   \* useState<number[]>: the indexes held by the array
    isTruncated,     \* useState<boolean[]>: function 0..len-1 -> BOOLEAN
    showSwipeHint,   \* useState(true)
    swiper,          \* swiperRef.current.swiper: [slides, activeIndex]
    viewportCols,    \* browser: characters that fit on one description line
    initTimer,       \* setTimeout(checkTruncation, 100) of the mount effect
    resizeTimers,    \* number of pending setTimeout(checkTruncation, 100) of handleResize
    hintTimer,       \* setTimeout(..., 5000) of the swipe-hint effect
    lateSetState,    \* a timer callback called a state setter after unmount
    slides,          \* the cards ProjectSection rendered last
    navs,            \* browser: the navigations the last user event caused
    swipeHintRendered, \* the "Swipe to explore more projects" hint is in the render
    downloadStatus,  \* DockerDownloadPage: useState('downloading')
    effectRan,       \* DockerDownloadPage: the mount effect has run
    threwAt,         \* DockerDownloadPage: the step of downloadFile that threw
    bodyLinks,       \* DockerDownloadPage: links left appended to document.body
    downloads,       \* browser: the state of every download link.click() started
    downloadsStarted,\* browser: downloads started since the page was (re)loaded
    reloads,         \* browser: window.location.reload() calls so far
    view,            \* DockerDownloadPage: what the page rendered last
    clickedLinks,    \* browser: the links this page load has clicked
    homeMounted,     \* HomeClient is mounted (the home page is open)
    inViewport,      \* browser: the section containers intersecting the viewport
    isInView,        \* HomeClient: the sections whose useInView flag is true
    entered,         \* history: the containers that have been in the viewport
    rendered,        \* the sections HomeClient rendered last
    isLoading,       \* GLBTestComponent: useState(true)
    canvasCreated,   \* GLBTestComponent: the Canvas has called onCreated
    overlayTimer,    \* GLBTestComponent: setTimeout(() => setIsLoading(false), 1000)
    modelLoad,       \* useGLTF('/lightModel.glb'): the model file's load
    overlayShown,    \* GLBTestComponent: the "Loading 3D Model..." overlay is rendered
    glbLateSetState  \* GLBTestComponent: setIsLoading was called after unmount

projectVars == <<projects, mounted, expandedCards, isTruncated, showSwipeHint,
                 swiper, viewportCols, initTimer, resizeTimers,
                 hintTimer, lateSetState, slides, navs, swipeHintRendered>>
downloadVars == <<downloadStatus, effectRan, threwAt, bodyLinks, downloads,
                  downloadsStarted, reloads, view, clickedLinks>>
homeVars == <<homeMounted, inViewport, isInView, entered, rendered, isLoading,
              canvasCreated, overlayTimer, modelLoad, overlayShown, glbLateSetState>>
vars == <<projectVars, downloadVars, homeVars>>

----------------------------------------------------------------------------
(* Bounds of the model *)

\* pending resize-triggered truncation timers kept at once
MaxResizeTimers == 1
\* characters per description line on a desktop-sized viewport
DesktopCols == 160
\* characters per description line on a wide viewport
WideCols == 240
\* page reloads followed
MaxReloads == 3

ViewportCols == {DesktopCols, WideCols}

----------------------------------------------------------------------------
(* Static data: projectsData.ts *)

\* -webkit-line-clamp of the line-clamp-3 class
ClampLines == 3

\* description is the text's opening words, descriptionLength its length in characters
ProjectsData ==
    << [title |-> "Ace Coding Academy",
        description |-> "An interactive educational platform",
        descriptionLength |-> 484,
        projectUrl |-> "https://acecodingacademy.com",
        category |-> "Education Platform", status |-> "Live", accentColor |-> "blue"],
       [title |-> "AI Email Generator",
        description |-> "An intelligent email generation platform",
        descriptionLength |-> 555,
        projectUrl |-> "https://email-generator-zeta.vercel.app/",
        category |-> "AI Tool", status |-> "Live", accentColor |-> "purple"],
       [title |-> "Pickagoo Delivery Platform",
        description |-> "A comprehensive delivery management platform",
        descriptionLength |-> 469,
        projectUrl |-> "https://pickagoo.com",
        category |-> "Delivery Platform", status |-> "Live", accentColor |-> "cyan"],
       \* the fourth title is written in Chinese in the source; romanised here
       [title |-> "Zui Ai Xiao Shuo Wang",
        description |-> "A free online novel reading website",
        descriptionLength |-> 341,
        projectUrl |-> "https://novel-xiaoshuo.vercel.app/",
        category |-> "Novel Website", status |-> "Live", accentColor |-> "cyan"],
       [title |-> "UI Academy",
        description |-> "A documentation site",
        descriptionLength |-> 409,
        projectUrl |-> "https://ui-academy.vercel.app/",
        category |-> "Component Library Documentation", status |-> "Live",
        accentColor |-> "blue"],
       [title |-> "Agentic Weather Chatbot",
        description |-> "An intelligent conversational AI system",
        descriptionLength |-> 666,
        projectUrl |-> "https://weather-chatbot-demo.vercel.app",
        category |-> "AI Weather Assistant", status |-> "In Development",
        accentColor |-> "indigo"] >>

Project(p, i) == p[i + 1]
Indexes(p) == 0 .. (Len(p) - 1)

----------------------------------------------------------------------------
(* Browser layout of a description paragraph, in lines *)

CeilDiv(a, b) == (a + b - 1) \div b

\* lines the description of card i wraps to at the given line width
DescLines(p, i, cols) == CeilDiv(Project(p, i).descriptionLength, cols)

Min(a, b) == IF a < b THEN a ELSE b

\* ref.scrollHeight: the full content height
scrollHeight(p, i, cols) == DescLines(p, i, cols)

\* ref.clientHeight: the visible height, cut to three lines while line-clamp-3 is applied
clientHeight(p, i, cols, expanded) ==
    IF i \in expanded
        THEN DescLines(p, i, cols)
        ELSE Min(DescLines(p, i, cols), ClampLines)

----------------------------------------------------------------------------
(* ProjectSection: state helpers *)

\* isTruncated[index] as the JSX reads it: undefined (falsy) beyond the array
Truncated(t, i) == i \in DOMAIN t /\ t[i]

\* mutant: a description that just fits its clamped box counts as truncated
checkTruncation_AtLeast(p, attached, cols, expanded) ==
    [i \in Indexes(p) |->
        IF ~attached
            THEN FALSE
            ELSE scrollHeight(p, i, cols) >= clientHeight(p, i, cols, expanded)]

\* checkTruncation: one flag per entry of descriptionRefs.current; a null ref
\* (the paragraph is detached) gives false
checkTruncation(p, attached, cols, expanded) ==
    [i \in Indexes(p) |->
        IF ~attached
            THEN FALSE
            ELSE scrollHeight(p, i, cols) > clientHeight(p, i, cols, expanded)]

\* mutant: expanding a card collapses the others
toggleCard_Accordion(prev, index) ==
    IF index \in prev THEN prev \ {index} ELSE {index}

\* toggleCard: remove the index when present, append it otherwise
toggleCard(prev, index) ==
    IF index \in prev THEN prev \ {index} ELSE prev \cup {index}

\* mutant: the handler opens the URL twice
handleCardClick_Twice(projectUrl) ==
    << [url |-> projectUrl, target |-> "_blank", via |-> "window.open"],
       [url |-> projectUrl, target |-> "_blank", via |-> "window.open"] >>

\* handleCardClick: one window.open call
handleCardClick(projectUrl) ==
    << [url |-> projectUrl, target |-> "_blank", via |-> "window.open"] >>

----------------------------------------------------------------------------
(* ProjectSection: render *)

\* mutant: every card is rendered from the first project
RenderCard_FirstProject(p, index, expanded, truncated) ==
    [ title       |-> Project(p, 0).title,
      description |-> Project(p, 0).description,
      status      |-> Project(p, 0).status,
      href        |-> Project(p, 0).projectUrl,
      cardUrl     |-> Project(p, 0).projectUrl,
      clamped     |-> index \notin expanded,
      toggle      |-> IF Truncated(truncated, index)
                         THEN (IF index \in expanded THEN "Show less" ELSE "Read more")
                         ELSE "none" ]

\* one SwiperSlide of projects.map
RenderCard(p, index, expanded, truncated) ==
    [ title       |-> Project(p, index).title,
      description |-> Project(p, index).description,
      status      |-> Project(p, index).status,
      href        |-> Project(p, index).projectUrl,
      cardUrl     |-> Project(p, index).projectUrl,
      clamped     |-> index \notin expanded,
      toggle      |-> IF Truncated(truncated, index)
                         THEN (IF index \in expanded THEN "Show less" ELSE "Read more")
                         ELSE "none" ]

\* the children of <Swiper>: projects.length > 0 && projects.map(...)
Render(p, expanded, truncated) ==
    IF Len(p) > 0
        THEN [k \in 1 .. Len(p) |-> RenderCard(p, k - 1, expanded, truncated)]
        ELSE << >>

\* mutant: the render reverses the array in place before mapping it
AfterRender_ReversedInPlace(p) == [k \in 1 .. Len(p) |-> p[Len(p) + 1 - k]]

\* Array.prototype.map leaves the array it is called on as it was
AfterRender(p) == p

----------------------------------------------------------------------------
(* DOM click dispatch inside a card *)

\* the card's onClick, reached by a click that bubbles up to the card
CardOnClick(card) == handleCardClick(card.cardUrl)

\* mutant: the "Read more" handler lets the click bubble
ReadMoreBubbles == FALSE

\* mutant: the floating action link's handler lets the click bubble
FloatingActionBubbles == FALSE

\* the "Read more" button's handler calls e.stopPropagation()
ReadMoreStopsPropagation == TRUE

\* the floating action link's handler calls e.stopPropagation()
FloatingActionStopsPropagation == TRUE

\* what the card's onClick adds once an inner handler has run
Bubble(stopped, card) == IF stopped THEN << >> ELSE CardOnClick(card)

\* default action of <a href target="_blank">, not prevented by the handler
AnchorDefault(card) ==
    << [url |-> card.href, target |-> "_blank", via |-> "anchor"] >>

----------------------------------------------------------------------------
(* Swiper in loop mode with slidesPerView 1: the slides are rearranged in    *)
(* the DOM so that the active slide always has a neighbour; activeIndex is a *)
(* DOM position, and the project shown is slides[activeIndex].               *)

SlidesCount(sw) == Len(sw.slides)

\* swiper.realIndex: the project the active slide shows
RealIndex(sw) == sw.slides[sw.activeIndex + 1]

\* DOM position of the slide showing project k
SlideIndexByData(sw, k) ==
    CHOOSE a \in 0 .. (SlidesCount(sw) - 1) : sw.slides[a + 1] = k

\* loopFix: moves the last slide to the front (going back from position 0) or
\* the first slide to the end (going on from the last position)
loopFix(sw, direction) ==
    LET n == SlidesCount(sw)
        a == sw.activeIndex
    IN  IF a < 1
            THEN IF direction = "prev"
                    THEN [slides |-> <<sw.slides[n]>> \o SubSeq(sw.slides, 1, n - 1),
                          activeIndex |-> a + 1]
                    ELSE sw
            ELSE IF a + 1 > n - 1 /\ direction = "next"
                    THEN [slides |-> Tail(sw.slides) \o <<Head(sw.slides)>>,
                          activeIndex |-> a - 1]
                    ELSE sw

slideTo(sw, index) ==
    LET n == SlidesCount(sw)
        clamped == IF index < 0 THEN 0 ELSE IF index > n - 1 THEN n - 1 ELSE index
    IN  [sw EXCEPT !.activeIndex = clamped]

slideNext(sw) ==
    LET fixed == loopFix(sw, "next") IN slideTo(fixed, fixed.activeIndex + 1)

slidePrev(sw) ==
    LET fixed == loopFix(sw, "prev") IN slideTo(fixed, fixed.activeIndex - 1)

slideToLoop(sw, k) == slideTo(sw, SlideIndexByData(sw, k))

\* a completed drag: loopFix in the drag's direction, then one slide over
touchSwipe(sw, direction) ==
    IF direction = "next" THEN slideNext(sw) ELSE slidePrev(sw)

\* Swiper emits slideChange when the active slide changed
SlideChanged(old, new) == RealIndex(old) # RealIndex(new)

----------------------------------------------------------------------------
(* ProjectSection: carousel handlers *)

handleNextClick(sw) ==
    IF sw.activeIndex = SlidesCount(sw) - 1
        THEN slideToLoop(sw, 0)
        ELSE slideNext(sw)

handlePrevClick(sw) ==
    IF sw.activeIndex = 0
        THEN slideToLoop(sw, SlidesCount(sw) - 1)
        ELSE slidePrev(sw)

\* handleSlideChange: setShowSwipeHint(false)
handleSlideChange(hint) == FALSE

\* the block under the section title: {projects.length > 1 && <div>... Swipe
\* to explore more projects ...</div>}; it does not read showSwipeHint. Its
\* class md:hidden takes it off the screen from the md breakpoint up.
RenderSwipeHint(p, hint) == Len(p) > 1

\* mutant: the effect returns no cleanup
HintEffect_NoCleanup(oldHint, newHint, timer) == timer

\* the swipe-hint effect's cleanup: a pending timer is cleared when
\* showSwipeHint changes
HintEffect(oldHint, newHint, timer) ==
    IF oldHint # newHint /\ timer = "pending" THEN "cleared" ELSE timer

----------------------------------------------------------------------------
(* ProjectSection: initial state (after the first commit, effects scheduled) *)

InitProjects ==
    /\ projects = ProjectsData
    /\ mounted = TRUE
    /\ expandedCards = {}
    /\ isTruncated = << >>
    /\ showSwipeHint = TRUE
    /\ swiper = [slides |-> [k \in 1 .. Len(ProjectsData) |-> k - 1], activeIndex |-> 0]
    /\ viewportCols \in ViewportCols
    /\ initTimer = "pending"
    /\ resizeTimers = 0
    /\ hintTimer = IF Len(ProjectsData) > 1 THEN "pending" ELSE "none"
    /\ lateSetState = FALSE
    /\ slides = Render(ProjectsData, {}, << >>)
    /\ navs = << >>
    /\ swipeHintRendered = RenderSwipeHint(ProjectsData, TRUE)

\* with slidesPerView 1 the pointer reaches the cards of the slide in view
VisibleCards == {RealIndex(swiper)}

\* the re-render that follows every state change of the mounted component
Rerender ==
    /\ projects' = AfterRender(projects)
    /\ slides' = Render(projects', expandedCards', isTruncated')
    /\ swipeHintRendered' = RenderSwipeHint(projects', showSwipeHint')

----------------------------------------------------------------------------
(* ProjectSection: timers and window events *)

\* the mount effect's setTimeout(checkTruncation, 100) fires
InitialCheckTimer ==
    /\ mounted
    /\ UNCHANGED <<downloadVars, homeVars>>
    /\ initTimer = "pending"
    /\ initTimer' = "fired"
    /\ isTruncated' = checkTruncation(projects, TRUE, viewportCols, expandedCards)
    /\ navs' = << >>
    /\ UNCHANGED <<mounted, expandedCards, showSwipeHint, swiper, viewportCols,
                   resizeTimers, hintTimer, lateSetState>>
    /\ Rerender

\* window resize: the browser lays the text out again; handleResize schedules a check
Resize(cols) ==
    /\ mounted
    /\ UNCHANGED <<downloadVars, homeVars>>
    /\ resizeTimers < MaxResizeTimers
    /\ viewportCols' = cols
    /\ resizeTimers' = resizeTimers + 1
    /\ navs' = << >>
    /\ UNCHANGED <<mounted, expandedCards, isTruncated, showSwipeHint, swiper,
                   initTimer, hintTimer, lateSetState>>
    /\ Rerender

\* a setTimeout(checkTruncation, 100) of handleResize fires; it is never cleared,
\* so it also fires after unmount, when every description ref is null
ResizeCheckTimer ==
    /\ resizeTimers > 0
    /\ UNCHANGED <<downloadVars, homeVars>>
    /\ resizeTimers' = resizeTimers - 1
    /\ navs' = << >>
    /\ UNCHANGED <<mounted, expandedCards, showSwipeHint, swiper, viewportCols,
                   initTimer, hintTimer>>
    /\ IF mounted
          THEN /\ isTruncated' = checkTruncation(projects, TRUE, viewportCols, expandedCards)
               /\ lateSetState' = lateSetState
               /\ Rerender
          ELSE /\ lateSetState' = TRUE
               /\ UNCHANGED <<isTruncated, projects, slides, swipeHintRendered>>

\* the swipe-hint effect's 5 second timer fires
HintTimer ==
    /\ mounted
    /\ UNCHANGED <<downloadVars, homeVars>>
    /\ hintTimer = "pending"
    /\ hintTimer' = "fired"
    /\ showSwipeHint' = FALSE
    /\ navs' = << >>
    /\ UNCHANGED <<mounted, expandedCards, isTruncated, swiper, viewportCols,
                   initTimer, resizeTimers, lateSetState>>
    /\ Rerender

----------------------------------------------------------------------------
(* ProjectSection: clicks on a card *)

\* a click on the card itself, outside its inner controls
ClickCard(i) ==
    /\ mounted
    /\ UNCHANGED <<downloadVars, homeVars>>
    /\ i \in VisibleCards
    /\ navs' = CardOnClick(slides[i + 1])
    /\ UNCHANGED <<projects, mounted, expandedCards, isTruncated, showSwipeHint,
                   swiper, viewportCols, initTimer, resizeTimers, hintTimer,
                   lateSetState, slides, swipeHintRendered>>

\* a click on the "Read more" / "Show less" button, rendered while isTruncated[i]
ClickReadMore(i) ==
    /\ mounted
    /\ UNCHANGED <<downloadVars, homeVars>>
    /\ i \in VisibleCards
    /\ slides[i + 1].toggle # "none"
    /\ expandedCards' = toggleCard(expandedCards, i)
    /\ navs' = Bubble(ReadMoreStopsPropagation, slides[i + 1])
    /\ UNCHANGED <<mounted, isTruncated, showSwipeHint, swiper, viewportCols,
                   initTimer, resizeTimers, hintTimer, lateSetState>>
    /\ Rerender

\* a click on the floating action link
ClickFloatingAction(i) ==
    /\ mounted
    /\ UNCHANGED <<downloadVars, homeVars>>
    /\ i \in VisibleCards
    /\ navs' = Bubble(FloatingActionStopsPropagation, slides[i + 1])
                  \o AnchorDefault(slides[i + 1])
    /\ UNCHANGED <<projects, mounted, expandedCards, isTruncated, showSwipeHint,
                   swiper, viewportCols, initTimer, resizeTimers, hintTimer,
                   lateSetState, slides, swipeHintRendered>>

----------------------------------------------------------------------------
(* ProjectSection: carousel navigation *)

\* the carousel moved to newSwiper; a slide change runs handleSlideChange
Navigate(newSwiper) ==
    /\ swiper' = newSwiper
    /\ showSwipeHint' = IF SlideChanged(swiper, newSwiper)
                           THEN handleSlideChange(showSwipeHint)
                           ELSE showSwipeHint
    /\ hintTimer' = HintEffect(showSwipeHint, showSwipeHint', hintTimer)
    /\ navs' = << >>
    /\ UNCHANGED <<mounted, expandedCards, isTruncated, viewportCols, initTimer,
                   resizeTimers, lateSetState>>
    /\ Rerender

\* the Next button, rendered while projects.length > 1
ClickNext ==
    /\ mounted
    /\ UNCHANGED <<downloadVars, homeVars>>
    /\ Len(projects) > 1
    /\ Navigate(handleNextClick(swiper))

\* the Previous button, rendered while projects.length > 1
ClickPrev ==
    /\ mounted
    /\ UNCHANGED <<downloadVars, homeVars>>
    /\ Len(projects) > 1
    /\ Navigate(handlePrevClick(swiper))

\* a drag to the left: on to the next slide
SwipeNext ==
    /\ mounted
    /\ UNCHANGED <<downloadVars, homeVars>>
    /\ Len(projects) > 1
    /\ Navigate(touchSwipe(swiper, "next"))

\* a drag to the right: back to the previous slide
SwipePrev ==
    /\ mounted
    /\ UNCHANGED <<downloadVars, homeVars>>
    /\ Len(projects) > 1
    /\ Navigate(touchSwipe(swiper, "prev"))

\* unmount: the effects' cleanups clear the mount timer and the hint timer and
\* remove the resize listener; pending resize timers stay scheduled. React
\* discards the component's state and Swiper is destroyed: the state variables
\* go back to their initial values, which nothing reads any more
Unmount ==
    /\ mounted
    /\ UNCHANGED <<downloadVars, homeVars>>
    /\ mounted' = FALSE
    /\ initTimer' = "cleared"
    /\ hintTimer' = "cleared"
    /\ expandedCards' = {}
    /\ isTruncated' = << >>
    /\ showSwipeHint' = TRUE
    /\ swiper' = [slides |-> [k \in 1 .. Len(projects) |-> k - 1], activeIndex |-> 0]
    /\ slides' = << >>
    /\ navs' = << >>
    /\ swipeHintRendered' = FALSE
    /\ UNCHANGED <<projects, viewportCols, resizeTimers, lateSetState>>

NextProjects ==
    \/ InitialCheckTimer
    \/ \E cols \in ViewportCols : Resize(cols)
    \/ ResizeCheckTimer
    \/ HintTimer
    \/ \E i \in Indexes(projects) : ClickCard(i)
    \/ \E i \in Indexes(projects) : ClickReadMore(i)
    \/ \E i \in Indexes(projects) : ClickFloatingAction(i)
    \/ ClickNext
    \/ ClickPrev
    \/ SwipeNext
    \/ SwipePrev
    \/ Unmount

----------------------------------------------------------------------------
(* DockerDownloadPage *)

\* the statements of downloadFile's try block that can throw, in order
DownloadSteps == <<"createElement", "appendChild", "click", "removeChild">>

StepIndex(step) == CHOOSE k \in 1 .. Len(DownloadSteps) : DownloadSteps[k] = step

\* whether the step ran to completion when the exception (if any) is thrown at throwAt
Completed(step, throwAt) ==
    throwAt = "none" \/ StepIndex(step) < StepIndex(throwAt)

\* the status the catch block sets
CatchStatus == "error"

\* mutant: the catch block only logs and leaves the status as it was
downloadFile_CatchOnlyLogs(throwAt) ==
    [ status   |-> IF throwAt = "none" THEN "success" ELSE "downloading",
      href     |-> "/docker-compose.yml",
      download |-> "docker-compose.yml",
      appended |-> Completed("appendChild", throwAt),
      clicked  |-> Completed("click", throwAt),
      removed  |-> Completed("removeChild", throwAt) ]

\* downloadFile: try { create, append, click, remove; setDownloadStatus('success') }
\* catch { setDownloadStatus('error') }
downloadFile(throwAt) ==
    [ status   |-> IF throwAt = "none" THEN "success" ELSE CatchStatus,
      href     |-> "/docker-compose.yml",
      download |-> "docker-compose.yml",
      appended |-> Completed("appendChild", throwAt),
      clicked  |-> Completed("click", throwAt),
      removed  |-> Completed("removeChild", throwAt) ]

\* mutant: the Try Again button is rendered outside the error panel
RenderDownload_AlwaysTryAgain(status) ==
    [ downloading |-> status = "downloading",
      success     |-> status = "success",
      error       |-> status = "error",
      tryAgain    |-> TRUE ]

\* the three panels of the page; the Try Again button belongs to the error panel
RenderDownload(status) ==
    [ downloading |-> status = "downloading",
      success     |-> status = "success",
      error       |-> status = "error",
      tryAgain    |-> status = "error" ]

\* mutant: the effect lists downloadStatus as a dependency
EffectDeps_Status == {"downloadStatus"}

\* useEffect(..., []): the effect depends on no state
EffectDeps == {}

\* React runs an effect again after a render in which a dependency changed
EffectReruns(deps, oldStatus, newStatus) ==
    "downloadStatus" \in deps /\ oldStatus # newStatus

\* the state of a freshly loaded page: first render done, mount effect scheduled
PageLoad ==
    /\ downloadStatus' = "downloading"
    /\ effectRan' = FALSE
    /\ threwAt' = "none"
    /\ bodyLinks' = 0
    /\ downloadsStarted' = 0
    /\ view' = RenderDownload("downloading")
    /\ clickedLinks' = << >>

\* the mount effect runs downloadFile to its end (the function never awaits)
MountEffect(throwAt) ==
    /\ ~effectRan
    /\ UNCHANGED <<projectVars, homeVars>>
    /\ LET r == downloadFile(throwAt)
       IN  /\ effectRan' = ~EffectReruns(EffectDeps, downloadStatus, r.status)
           /\ threwAt' = throwAt
           /\ bodyLinks' = IF r.appended /\ ~r.removed THEN bodyLinks + 1 ELSE bodyLinks
           /\ downloads' = IF r.clicked THEN Append(downloads, "pending") ELSE downloads
           /\ downloadsStarted' = IF r.clicked THEN downloadsStarted + 1 ELSE downloadsStarted
           /\ clickedLinks' = IF r.clicked
                                 THEN Append(clickedLinks,
                                             [href |-> r.href, download |-> r.download])
                                 ELSE clickedLinks
           /\ downloadStatus' = r.status
           /\ view' = RenderDownload(downloadStatus')
    /\ UNCHANGED reloads

\* the browser finishes writing a started download to the device
DownloadCompletes(k) ==
    /\ downloads[k] = "pending"
    /\ UNCHANGED <<projectVars, homeVars>>
    /\ downloads' = [downloads EXCEPT ![k] = "completed"]
    /\ UNCHANGED <<downloadStatus, effectRan, threwAt, bodyLinks, downloadsStarted,
                   reloads, view, clickedLinks>>

\* the browser gives a started download up (the request fails, the user cancels)
DownloadFails(k) ==
    /\ downloads[k] = "pending"
    /\ UNCHANGED <<projectVars, homeVars>>
    /\ downloads' = [downloads EXCEPT ![k] = "failed"]
    /\ UNCHANGED <<downloadStatus, effectRan, threwAt, bodyLinks, downloadsStarted,
                   reloads, view, clickedLinks>>

\* the Try Again button: setDownloadStatus('downloading'); window.location.reload()
ClickTryAgain ==
    /\ view.tryAgain
    /\ reloads < MaxReloads
    /\ UNCHANGED <<projectVars, homeVars>>
    /\ reloads' = reloads + 1
    /\ PageLoad
    /\ UNCHANGED downloads

NextDownload ==
    \/ \E throwAt \in {"none"} \cup {DownloadSteps[k] : k \in 1 .. Len(DownloadSteps)} :
          MountEffect(throwAt)
    \/ \E k \in DOMAIN downloads : DownloadCompletes(k)
    \/ \E k \in DOMAIN downloads : DownloadFails(k)
    \/ ClickTryAgain

----------------------------------------------------------------------------
(* HomeClient: sections rendered once their container has been in view *)

\* the ids of the lazily rendered section containers
Sections == {"skills", "projects", "experience", "3d-playground", "contact"}

\* mutant: the hook is called without { once: true }
OnceOmitted == FALSE

\* the option every useInView call passes: { once: true }
Once == TRUE

\* framer-motion's useInView: the flag becomes true when the element
\* intersects the viewport; with once it is never reset, without it the flag
\* follows the element out of view
useInView(flag, isIntersecting, once) ==
    IF isIntersecting THEN TRUE ELSE IF once THEN flag ELSE FALSE

\* the five flags after the observer reported the viewport's intersections
ObserverUpdate(flags, viewport) ==
    {s \in Sections : useInView(s \in flags, s \in viewport, Once)}

\* {isXInView && <XSection />}
RenderSections(flags) == {s \in Sections : s \in flags}

\* GLBTestComponent is rendered inside the 3d-playground container
GlbMounted(sections) == "3d-playground" \in sections

\* mutant: the overlay is rendered whatever isLoading is
RenderOverlay_Always(loading) == TRUE

\* mutant: the overlay is rendered only once isLoading is false
RenderOverlay_Inverted(loading) == ~loading

\* {isLoading && <div>Loading 3D Model...</div>}
RenderOverlay(loading) == loading

\* the Suspense fallback (the wireframe cube) stands in for the model
FallbackShown == GlbMounted(rendered) /\ canvasCreated /\ modelLoad = "pending"

\* GLBTestComponent follows the render of its section: mounted with
\* isLoading = true and no canvas yet; at unmount its state is discarded, and
\* the overlay timer is left as it is (no cleanup clears it)
GlbFollowsRender ==
    IF GlbMounted(rendered') /\ ~GlbMounted(rendered)
        THEN /\ isLoading' = TRUE
             /\ canvasCreated' = FALSE
             /\ overlayShown' = RenderOverlay(TRUE)
        ELSE IF ~GlbMounted(rendered') /\ GlbMounted(rendered)
            THEN /\ isLoading' = TRUE
                 /\ canvasCreated' = FALSE
                 /\ overlayShown' = FALSE
            ELSE UNCHANGED <<isLoading, canvasCreated, overlayShown>>

\* scrolling brings a section container into the viewport
EnterViewport(s) ==
    /\ homeMounted
    /\ s \notin inViewport
    /\ UNCHANGED <<projectVars, downloadVars>>
    /\ inViewport' = inViewport \cup {s}
    /\ entered' = entered \cup {s}
    /\ isInView' = ObserverUpdate(isInView, inViewport')
    /\ rendered' = RenderSections(isInView')
    /\ GlbFollowsRender
    /\ UNCHANGED <<homeMounted, overlayTimer, modelLoad, glbLateSetState>>

\* scrolling takes a section container out of the viewport
LeaveViewport(s) ==
    /\ homeMounted
    /\ s \in inViewport
    /\ UNCHANGED <<projectVars, downloadVars>>
    /\ inViewport' = inViewport \ {s}
    /\ entered' = entered
    /\ isInView' = ObserverUpdate(isInView, inViewport')
    /\ rendered' = RenderSections(isInView')
    /\ GlbFollowsRender
    /\ UNCHANGED <<homeMounted, overlayTimer, modelLoad, glbLateSetState>>

\* the Canvas calls onCreated: setTimeout(() => setIsLoading(false), 1000)
CanvasCreated ==
    /\ GlbMounted(rendered)
    /\ ~canvasCreated
    /\ UNCHANGED <<projectVars, downloadVars>>
    /\ canvasCreated' = TRUE
    /\ overlayTimer' = "pending"
    /\ UNCHANGED <<homeMounted, inViewport, isInView, entered, rendered, isLoading,
                   modelLoad, overlayShown, glbLateSetState>>

\* the one second timer fires: setIsLoading(false), also after an unmount
OverlayTimer ==
    /\ overlayTimer = "pending"
    /\ UNCHANGED <<projectVars, downloadVars>>
    /\ overlayTimer' = "fired"
    /\ IF GlbMounted(rendered)
          THEN /\ isLoading' = FALSE
               /\ overlayShown' = RenderOverlay(isLoading')
               /\ glbLateSetState' = glbLateSetState
          ELSE /\ glbLateSetState' = TRUE
               /\ UNCHANGED <<isLoading, overlayShown>>
    /\ UNCHANGED <<homeMounted, inViewport, isInView, entered, rendered,
                   canvasCreated, modelLoad>>

\* the model file, preloaded when the module is imported, finishes loading
ModelLoaded ==
    /\ modelLoad = "pending"
    /\ UNCHANGED <<projectVars, downloadVars>>
    /\ modelLoad' = "loaded"
    /\ UNCHANGED <<homeMounted, inViewport, isInView, entered, rendered, isLoading,
                   canvasCreated, overlayTimer, overlayShown, glbLateSetState>>

\* the user leaves the home page: HomeClient and every section unmount
LeavePage ==
    /\ homeMounted
    /\ UNCHANGED <<projectVars, downloadVars>>
    /\ homeMounted' = FALSE
    /\ inViewport' = {}
    /\ isInView' = {}
    /\ rendered' = {}
    /\ GlbFollowsRender
    /\ UNCHANGED <<entered, overlayTimer, modelLoad, glbLateSetState>>

NextHome ==
    \/ \E s \in Sections : EnterViewport(s)
    \/ \E s \in Sections : LeaveViewport(s)
    \/ CanvasCreated
    \/ OverlayTimer
    \/ ModelLoaded
    \/ LeavePage

\* the home page right after its first render, scrolled to the top
InitHome ==
    /\ homeMounted = TRUE
    /\ inViewport = {}
    /\ isInView = {}
    /\ entered = {}
    /\ rendered = RenderSections({})
    /\ isLoading = TRUE
    /\ canvasCreated = FALSE
    /\ overlayTimer = "none"
    /\ modelLoad = "pending"
    /\ overlayShown = FALSE
    /\ glbLateSetState = FALSE

\* the home page's lazy sections are not followed
InitHomeIdle ==
    /\ homeMounted = FALSE
    /\ inViewport = {}
    /\ isInView = {}
    /\ entered = {}
    /\ rendered = {}
    /\ isLoading = TRUE
    /\ canvasCreated = FALSE
    /\ overlayTimer = "none"
    /\ modelLoad = "pending"
    /\ overlayShown = FALSE
    /\ glbLateSetState = FALSE

----------------------------------------------------------------------------
(* Specifications: ProjectSection, the download page, the home page's sections *)

\* the download page is not open
InitDownloadIdle ==
    /\ downloadStatus = "downloading"
    /\ effectRan = TRUE
    /\ threwAt = "none"
    /\ bodyLinks = 0
    /\ downloads = << >>
    /\ downloadsStarted = 0
    /\ reloads = 0
    /\ view = RenderDownload("downloading")
    /\ clickedLinks = << >>

\* the home page is not open
InitProjectsIdle ==
    /\ projects = ProjectsData
    /\ mounted = FALSE
    /\ expandedCards = {}
    /\ isTruncated = << >>
    /\ showSwipeHint = TRUE
    /\ swiper = [slides |-> [k \in 1 .. Len(ProjectsData) |-> k - 1], activeIndex |-> 0]
    /\ viewportCols = DesktopCols
    /\ initTimer = "cleared"
    /\ resizeTimers = 0
    /\ hintTimer = "cleared"
    /\ lateSetState = FALSE
    /\ slides = << >>
    /\ navs = << >>
    /\ swipeHintRendered = FALSE

InitDownload ==
    /\ downloadStatus = "downloading"
    /\ effectRan = FALSE
    /\ threwAt = "none"
    /\ bodyLinks = 0
    /\ downloads = << >>
    /\ downloadsStarted = 0
    /\ reloads = 0
    /\ view = RenderDownload("downloading")
    /\ clickedLinks = << >>

Init == InitProjects /\ InitDownloadIdle /\ InitHomeIdle

InitDownloadPage == InitProjectsIdle /\ InitDownload /\ InitHomeIdle

InitHomePage == InitProjectsIdle /\ InitDownloadIdle /\ InitHome

Next == NextProjects

Spec == Init /\ [][Next]_vars

SpecDownload == InitDownloadPage /\ [][NextDownload]_vars

\* the timers of ProjectSection that are pending do fire
SpecFair ==
    /\ Spec
    /\ WF_vars(InitialCheckTimer)
    /\ WF_vars(ResizeCheckTimer)
    /\ WF_vars(HintTimer)

SpecHome == InitHomePage /\ [][NextHome]_vars

\* a timer that is pending does fire
SpecHomeFair == SpecHome /\ WF_vars(OverlayTimer)

----------------------------------------------------------------------------
(* Properties *)

\* the record window.open(url, '_blank', ...) leaves in navs
OpenedInNewTab(url) == [url |-> url, target |-> "_blank", via |-> "window.open"]

\* the record the floating action link's own navigation leaves in navs
FollowedLink(url) == [url |-> url, target |-> "_blank", via |-> "anchor"]

\* C1: while ProjectSection is mounted it renders exactly one card per entry of
\* the projects array, and card i shows the title, description and URL of
\* projects[i], in array order.
C1_OneCardPerProject ==
    mounted =>
        /\ Len(slides) = Len(projects)
        /\ \A i \in Indexes(projects) :
              /\ slides[i + 1].title = Project(projects, i).title
              /\ slides[i + 1].description = Project(projects, i).description
              /\ slides[i + 1].href = Project(projects, i).projectUrl

\* C1 witness: the six cards are rendered, after a truncation check and a toggle
\* re-rendered them
C1_Witness ==
    /\ mounted
    /\ Len(slides) = 6
    /\ slides[6].title = "Agentic Weather Chatbot"
    /\ initTimer = "fired"
    /\ expandedCards # {}

\* C2: a click on card i outside its inner controls calls window.open exactly
\* once, with projects[i].projectUrl and target '_blank', and with no other URL.
C2_CardClickOpensOwnUrl ==
    [][\A i \in Indexes(projects) :
          ClickCard(i) => navs' = << OpenedInNewTab(Project(projects, i).projectUrl) >>]_vars

\* C2 witness: the third card was brought into view and clicked
C2_Witness ==
    navs = << OpenedInNewTab("https://pickagoo.com") >>

\* C8: a click on "Read more"/"Show less" or on Previous/Next opens no URL
\* (handleCardClick is not invoked); the first only toggles that card's
\* expansion and leaves the carousel alone, the others leave the cards'
\* expansion alone.
C8_InnerControlsDoNotNavigate ==
    [][/\ \A i \in Indexes(projects) :
             ClickReadMore(i) =>
                /\ navs' = << >>
                /\ swiper' = swiper
                /\ expandedCards' \in {expandedCards \cup {i}, expandedCards \ {i}}
                /\ expandedCards' # expandedCards
       /\ (ClickNext \/ ClickPrev) =>
             /\ navs' = << >>
             /\ expandedCards' = expandedCards]_vars

\* C8 witness: the second card is in view after a navigation, expanded by its
\* toggle, and nothing was opened
C8_Witness ==
    /\ mounted
    /\ RealIndex(swiper) = 1
    /\ slides[2].toggle = "Show less"
    /\ navs = << >>

\* C9: a click on card i's floating action link navigates to
\* projects[i].projectUrl in a new tab exactly once: by the link itself, and not
\* a second time by the card's click handler.
C9_FloatingActionNavigatesOnce ==
    [][\A i \in Indexes(projects) :
          ClickFloatingAction(i) =>
             navs' = << FollowedLink(Project(projects, i).projectUrl) >>]_vars

\* C9 witness: the fifth card's floating action link was clicked
C9_Witness ==
    navs = << FollowedLink("https://ui-academy.vercel.app/") >>

\* C10: Next on the last slide makes the first slide active, Previous on the
\* first slide makes the last slide active, otherwise Next and Previous move the
\* active slide by exactly one; the active slide is always one of the projects'.
C10_NavigationWrapsByOne ==
    /\ [](mounted => RealIndex(swiper) \in Indexes(projects))
    /\ [][/\ ClickNext =>
                RealIndex(swiper') = (RealIndex(swiper) + 1) % Len(projects)
          /\ ClickPrev =>
                RealIndex(swiper') = (RealIndex(swiper) + Len(projects) - 1) % Len(projects)]_vars

\* C3: once the first truncation check has run, card i shows its
\* "Read more"/"Show less" toggle exactly when its description exceeds three
\* lines in the current layout. Stated for the states in which no truncation
\* check is pending: the 100 ms between a resize and its check are left out.
C3_ToggleIffExceedsThreeLines ==
    (mounted /\ initTimer = "fired" /\ resizeTimers = 0) =>
        \A i \in Indexes(projects) :
            (slides[i + 1].toggle # "none")
                <=> (DescLines(projects, i, viewportCols) > ClampLines)

\* C7: no operation changes the static projects array: its length, order and
\* every record's fields are in every reachable state as at load.
C7_ProjectsNeverChange ==
    projects = ProjectsData

\* C7 witness: a truncation check, a toggle, a navigation and a resize have run
C7_Witness ==
    /\ mounted
    /\ initTimer = "fired"
    /\ expandedCards # {}
    /\ RealIndex(swiper) # 0
    /\ resizeTimers > 0
    /\ Len(projects) = 6

\* the download this page load started, if any
ThisLoadsDownload ==
    IF downloadsStarted > 0 THEN downloads[Len(downloads)] ELSE "none"

\* C4: the download status is always one of 'downloading', 'success', 'error';
\* it is 'downloading' until the mount-time action has run, then 'success' when
\* the action completed without throwing and 'error' when a step of it threw.
C4_StatusFollowsOutcome ==
    /\ downloadStatus \in {"downloading", "success", "error"}
    /\ ~effectRan => downloadStatus = "downloading"
    /\ effectRan => downloadStatus = (IF threwAt = "none" THEN "success" ELSE "error")

\* C4 witness: link.click() threw and the page shows the error state
C4_Witness ==
    /\ effectRan
    /\ threwAt = "click"
    /\ downloadStatus = "error"
    /\ view.error

\* C5: the Try Again button is offered only while the status is 'error';
\* clicking it sets the status to 'downloading' and reloads the page, which is
\* then in its initial state with the download action about to run again.
C5_TryAgainOnlyOnErrorAndReloads ==
    /\ [](view.tryAgain => downloadStatus = "error")
    /\ [][ClickTryAgain =>
             /\ downloadStatus = "error"
             /\ downloadStatus' = "downloading"
             /\ reloads' = reloads + 1
             /\ ~effectRan'
             /\ threwAt' = "none"
             /\ bodyLinks' = 0
             /\ downloadsStarted' = 0
             /\ view' = RenderDownload("downloading")]_vars

\* C5 witness: after a Try Again the download action ran again and succeeded
C5_Witness ==
    /\ reloads = 1
    /\ effectRan
    /\ downloadStatus = "success"
    /\ downloadsStarted = 1

\* C6: the page shows the success state only when the file download has
\* completed, never while it is pending or after it failed.
C6_SuccessOnlyWhenDownloaded ==
    view.success => ThisLoadsDownload = "completed"

----------------------------------------------------------------------------
(* Claims about HomeClient's lazily rendered sections and the 3D viewer *)

\* C11: a home-page section (skills, projects, experience, 3D playground,
\* contact) is rendered only after its container has been in the viewport,
\* and while the page is open a rendered section stays rendered, also after
\* its container has left the viewport.
C11_SectionsRenderedOnceInView ==
    /\ [](rendered \subseteq entered)
    /\ [][homeMounted' => rendered \subseteq rendered']_vars

\* C11 witness: a section whose container has left the viewport is rendered
\* while another, never in view, is not
C11_Witness ==
    /\ homeMounted
    /\ \E s \in rendered : s \notin inViewport
    /\ \E s \in Sections : s \notin entered /\ s \notin rendered

\* C12: the "Loading 3D Model..." overlay is shown from the viewer's mount,
\* is hidden only by the one second timer that the canvas's onCreated
\* started, and once hidden is not shown again; whenever the canvas has been
\* created the overlay is eventually hidden (the pending timer fires).
C12_OverlayHiddenAfterCanvasCreated ==
    /\ [](GlbMounted(rendered) /\ ~canvasCreated => overlayShown)
    /\ [][overlayShown /\ ~overlayShown' /\ GlbMounted(rendered') =>
             /\ canvasCreated
             /\ overlayTimer = "pending"
             /\ overlayTimer' = "fired"]_vars
    /\ [][GlbMounted(rendered) /\ ~overlayShown => ~overlayShown']_vars
    /\ (canvasCreated ~> ~overlayShown)

\* C12 witness: the canvas was created, the timer fired and the overlay of
\* the mounted viewer is gone
C12_Witness ==
    /\ GlbMounted(rendered)
    /\ canvasCreated
    /\ overlayTimer = "fired"
    /\ ~isLoading
    /\ ~overlayShown

\* C16 (as the code has it): while the viewer is mounted the overlay is
\* displayed until the timer started at canvas creation has fired, whether
\* or not the model has loaded by then.
C16_OverlayShownUntilTimerFires ==
    GlbMounted(rendered) =>
        (overlayShown <=> overlayTimer # "fired")

\* C16 witness: the timer fired and hid the overlay while the model was
\* still loading and the Suspense fallback stood in for it
C16_Witness ==
    /\ FallbackShown
    /\ overlayTimer = "fired"
    /\ ~overlayShown

\* C16 (as stated): the overlay is never hidden while the model is still
\* loading, that is, while the Suspense fallback is shown for it.
C16_OverlayShownWhileModelLoads ==
    FallbackShown => overlayShown

----------------------------------------------------------------------------
(* Claims about ProjectSection's expansion, swipe hint and timers *)

\* C13: in every state in which card i is expanded, its "Show less" toggle
\* is displayed, so that an expanded card can be collapsed again.
C13_ExpandedCardShowsLess ==
    mounted => \A i \in expandedCards : slides[i + 1].toggle = "Show less"

\* C14: after a slide change (a swipe, or the Next or Previous button) the
\* "Swipe to explore more projects" hint is not displayed, and it stays away.
C14_HintHiddenAfterSlideChange ==
    /\ [][mounted' /\ SlideChanged(swiper, swiper') => ~swipeHintRendered']_vars
    /\ [][mounted' /\ ~swipeHintRendered => ~swipeHintRendered']_vars

\* C15: showSwipeHint starts true; while it is true (with more than one
\* project) the 5 second timer is pending, so the flag becomes false when the
\* timer fires unless a slide change made it false first, which cancels the
\* pending timer; once false the flag is never true again while the section
\* is mounted.
C15_SwipeHintFlagFalseOnce ==
    /\ showSwipeHint = TRUE
    /\ [](mounted /\ showSwipeHint => Len(projects) > 1 /\ hintTimer = "pending")
    /\ [](mounted /\ ~showSwipeHint => hintTimer \in {"fired", "cleared"})
    /\ [][mounted' /\ showSwipeHint /\ ~showSwipeHint' =>
             \/ hintTimer' = "fired" /\ swiper' = swiper
             \/ hintTimer' = "cleared" /\ SlideChanged(swiper, swiper')]_vars
    /\ [][mounted' /\ ~showSwipeHint => ~showSwipeHint']_vars
    /\ ((mounted /\ showSwipeHint) ~> (~mounted \/ ~showSwipeHint))

\* C15 witness: a slide change made the flag false and cancelled the timer
C15_Witness ==
    /\ mounted
    /\ ~showSwipeHint
    /\ hintTimer = "cleared"
    /\ RealIndex(swiper) # 0

\* C17: every window resize schedules a truncation check, which runs (a
\* pending timer fires) and, while the section is mounted, stores for every
\* rendered description whether it overflows its box in the layout of that
\* moment; the flags array has one entry per rendered description.
C17_ResizeSchedulesTruncationCheck ==
    /\ [][(\E cols \in ViewportCols : Resize(cols)) =>
             resizeTimers' = resizeTimers + 1]_vars
    /\ [][mounted /\ resizeTimers' < resizeTimers =>
             isTruncated' =
                 [i \in 0 .. (Len(slides) - 1) |->
                     /\ i \notin expandedCards
                     /\ DescLines(projects, i, viewportCols) > ClampLines]]_vars
    /\ [](mounted /\ DOMAIN isTruncated # {} =>
             DOMAIN isTruncated = 0 .. (Len(slides) - 1))
    /\ ([]<>(resizeTimers = 0) \/ []<><<ResizeCheckTimer>>_vars)

\* C17 witness: a card was expanded in the narrow layout and the check that
\* followed a resize to the wide layout found no description truncated
C17_Witness ==
    /\ mounted
    /\ viewportCols = WideCols
    /\ resizeTimers = 0
    /\ expandedCards # {}
    /\ DOMAIN isTruncated = Indexes(projects)
    /\ \A i \in Indexes(projects) : ~isTruncated[i]

\* C18: once the section is unmounted no timer of it is left pending (each
\* has fired or was cancelled at unmount), so that no timer callback sets
\* state after the unmount.
C18_NoTimerAfterUnmount ==
    /\ ~mounted => resizeTimers = 0 /\ initTimer # "pending" /\ hintTimer # "pending"
    /\ ~lateSetState

\* C19: toggling card i flips the expansion of card i only: the expansion of
\* every other card, the truncation flags, the swipe-hint flag and the active
\* slide are as before.
C19_ToggleFlipsOnlyThatCard ==
    [][\A i \in Indexes(projects) :
          ClickReadMore(i) =>
              /\ (i \in expandedCards') # (i \in expandedCards)
              /\ \A j \in Indexes(projects) \ {i} :
                     (j \in expandedCards') = (j \in expandedCards)
              /\ isTruncated' = isTruncated
              /\ showSwipeHint' = showSwipeHint
              /\ swiper' = swiper]_vars

\* C19 witness: card 1 was expanded while card 0 stayed expanded
C19_Witness ==
    /\ mounted
    /\ expandedCards = {0, 1}
    /\ RealIndex(swiper) = 1

----------------------------------------------------------------------------
(* Claims about the download page's single download *)

\* C20 (as the code has it): a page load triggers at most one download. The
\* mount-time action clicks one link with href '/docker-compose.yml' and
\* download 'docker-compose.yml' unless a step up to the click threw, and no
\* later state change, the status update included, clicks another link
\* before the page is reloaded.
C20_DownloadAtMostOncePerLoad ==
    /\ Len(clickedLinks) <= 1
    /\ downloadsStarted = Len(clickedLinks)
    /\ \A k \in DOMAIN clickedLinks :
           clickedLinks[k] = [href |-> "/docker-compose.yml",
                              download |-> "docker-compose.yml"]
    /\ ~effectRan => clickedLinks = << >>
    /\ effectRan =>
           (Len(clickedLinks) = 1 <=>
                threwAt \notin {"createElement", "appendChild", "click"})

\* C20 witness: the third load of the page clicked its one link, after two
\* loads that ended in 'error', and rendered the success panel since
C20_Witness ==
    /\ reloads = 2
    /\ effectRan
    /\ view.success
    /\ Len(clickedLinks) = 1

\* C20 (as stated): once the mount-time action has run, exactly one link has
\* been clicked in this page load.
C20_DownloadExactlyOncePerLoad ==
    effectRan => Len(clickedLinks) = 1

====
